---- MODULE Spec2Model ----
(***************************************************************************)
(* The task store and the task routers of nextjs-trpc-task-manager.        *)
(*                                                                         *)
(* The repository holds three task routers:                                *)
(*   "taskRouter"    src/server/routers/task.router.ts:130-314, over the   *)
(*                   Map tasksStore seeded with twelve tasks;              *)
(*   "taskRouterV2"  src/server/routers/task.router.ts:65-128, over an     *)
(*                   empty Map, throwing plain Error objects;              *)
(*   "apiTaskRouter" src/server/api/routers/task.ts, over the array tasks  *)
(*                   seeded with two tasks, with the limit/cursor list.    *)
(* A behaviour runs one of them (router never changes).                    *)
(*                                                                         *)
(* JavaScript values: a string-or-null field holds string(s), null or      *)
(* undefined; an object is a function from its keys; a Map is the sequence *)
(* of its entries in insertion order; a task id is a number standing for   *)
(* the id string; crypto.randomUUID() returns a value it never returned.   *)
(* An update input may carry a key the schema does not name (dataCriacao). *)
(***************************************************************************)
EXTENDS Integers, Sequences, FiniteSets, TLC

VARIABLES router, tasksStore, tasks, now, uuidCount, result,
          cache,   \* the client's task.list query: undefined, or its data
          pages,   \* the pages a client has fetched from infiniteList, in order
          item     \* the state of one mounted TaskItem: undefined, or its hooks

vars == <<router, tasksStore, tasks, now, uuidCount, result, cache, pages, item>>

(***************************** bounds **************************************)
\* crypto.randomUUID() calls made by create in one behaviour
MaxCreates == 1
\* milliseconds the clock may advance after module load
MaxTicks == 1
\* tasks of an array store drawn for the pagination checks
MaxPageLen == 4
\* tasks of a Map store drawn for the pagination checks
MaxInfiniteLen == 13
\* tasks of the array store drawn to overfill a page of the default limit
MaxDefaultLen == 11
\* tasks one client creates through TaskForm in one behaviour
MaxClientCreates == 2

(************************* JavaScript values *******************************)
null == [type |-> "null"]
undefined == [type |-> "undefined"]
string(s) == [type |-> "string", value |-> s]
number(n) == [type |-> "number", value |-> n]

\* mutant: { ...b, ...a }, the left operand's fields win
spread_leftWins(a, b) ==
  [k \in DOMAIN a \cup DOMAIN b |-> IF k \in DOMAIN a THEN a[k] ELSE b[k]]

\* { ...a, ...b }
spread(a, b) ==
  [k \in DOMAIN a \cup DOMAIN b |-> IF k \in DOMAIN b THEN b[k] ELSE a[k]]

\* zod's z.object strips the keys its shape does not name
strip(o, keys) == [k \in DOMAIN o \cap keys |-> o[k]]

RECURSIVE repeat(_, _)
repeat(s, n) ==
  IF n = 0 THEN ""
  ELSE IF n % 2 = 0 THEN LET half == repeat(s, n \div 2) IN half \o half
  ELSE s \o repeat(s, n - 1)

RECURSIVE trimStart(_)
trimStart(s) ==
  IF Len(s) > 0 /\ SubSeq(s, 1, 1) = " " THEN trimStart(SubSeq(s, 2, Len(s))) ELSE s

RECURSIVE trimEnd(_)
trimEnd(s) ==
  IF Len(s) > 0 /\ SubSeq(s, Len(s), Len(s)) = " "
  THEN trimEnd(SubSeq(s, 1, Len(s) - 1)) ELSE s

\* String.prototype.trim
trim(s) == trimEnd(trimStart(s))

\* crypto.randomUUID(): the n-th value drawn, different from every other
randomUUID(n) == 100 + n

(****************************** Map ****************************************)
MapHas(m, k) == \E i \in 1..Len(m) : m[i].key = k

MapGet(m, k) ==
  IF MapHas(m, k) THEN m[CHOOSE i \in 1..Len(m) : m[i].key = k].value ELSE undefined

\* mutant: an entry is added even when the key is already there
MapSet_append(m, k, v) == Append(m, [key |-> k, value |-> v])

MapSet(m, k, v) ==
  IF MapHas(m, k)
  THEN [i \in 1..Len(m) |-> IF m[i].key = k THEN [key |-> k, value |-> v] ELSE m[i]]
  ELSE Append(m, [key |-> k, value |-> v])

MapDelete(m, k) == SelectSeq(m, LAMBDA e : e.key # k)

MapValues(m) == [i \in 1..Len(m) |-> m[i].value]

MapKeys(m) == {m[i].key : i \in 1..Len(m)}

(****************************** errors *************************************)
TRPCError(code, message) == [name |-> "TRPCError", code |-> code, message |-> message]

\* new Error(message): no code
Error(message) == [name |-> "Error", message |-> message]

ok(store, value) == [ok |-> TRUE, store |-> store, value |-> value]
throw(store, error) == [ok |-> FALSE, store |-> store, error |-> error]

(***************************** schemas *************************************)
success(data) == [success |-> TRUE, data |-> data]
failure == [success |-> FALSE]

\* z.string().min(1).max(120)
titleOk(s) == Len(s) >= 1 /\ Len(s) <= 120

createTaskSchema(input) ==
  IF "titulo" \in DOMAIN input /\ titleOk(input.titulo)
  THEN success(strip(input, {"titulo", "descricao"}))
  ELSE failure

\* mutant: z.object(...).passthrough(), the keys the shape does not name are kept
updateTaskSchema_passthrough(input) ==
  IF /\ "id" \in DOMAIN input
     /\ "titulo" \in DOMAIN input => titleOk(input.titulo)
  THEN success(input)
  ELSE failure

updateTaskSchema(input) ==
  IF /\ "id" \in DOMAIN input
     /\ "titulo" \in DOMAIN input => titleOk(input.titulo)
  THEN success(strip(input, {"id", "titulo", "descricao"}))
  ELSE failure

\* z.object({ id: z.string() })
idSchema(input) ==
  IF "id" \in DOMAIN input THEN success(strip(input, {"id"})) ELSE failure

\* publicProcedure.input(schema): a failed parse is a BAD_REQUEST TRPCError and
\* the resolver is not called
badRequest(store) == throw(store, TRPCError("BAD_REQUEST", "invalid input"))

(************************ sorting and slicing ******************************)
\* mutant: the comparator with its operands swapped (oldest first)
compare_ascending(a, b) == a.dataCriacao - b.dataCriacao

\* (a, b) => b.dataCriacao - a.dataCriacao
compare(a, b) == b.dataCriacao - a.dataCriacao

\* mutant: x put before the elements it ties with (a sort that is not stable)
insert_beforeTies(s, x) ==
  LET pos == Cardinality({i \in 1..Len(s) : compare(s[i], x) < 0})
  IN SubSeq(s, 1, pos) \o <<x>> \o SubSeq(s, pos + 1, Len(s))

\* x put after the elements that do not sort after it (a stable insertion)
insert(s, x) ==
  LET pos == Cardinality({i \in 1..Len(s) : compare(s[i], x) <= 0})
  IN SubSeq(s, 1, pos) \o <<x>> \o SubSeq(s, pos + 1, Len(s))

\* Array.prototype.sort with compare: stable.  The last element is inserted
\* into the sorted rest; the rest and its sorted form are bound as values (b, r)
\* so that each is computed once.
RECURSIVE sort(_)
sort(a) ==
  IF a = <<>> THEN <<>>
  ELSE CHOOSE out \in {insert(r, a[Len(a)]) :
                         r \in {sort(b) : b \in {SubSeq(a, 1, Len(a) - 1)}}} : TRUE

\* mutant: slice(0, limit + 1), one element too many
slice_oneMore(a, limit) == SubSeq(a, 1, IF limit + 1 < Len(a) THEN limit + 1 ELSE Len(a))

\* array.slice(0, limit)
slice(a, limit) == SubSeq(a, 1, IF limit < Len(a) THEN limit ELSE Len(a))

\* input?.cursor as a condition: undefined and 0 are falsy
truthy(input) == input # undefined /\ "cursor" \in DOMAIN input /\ input.cursor # 0

(******************* taskRouter (routers/task.router.ts) *******************)
\* list: every task of the store, newest first
list(store) == sort(MapValues(store))

\* mutant: the new task is returned and never stored
create_notStored(store, input, id, t) ==
  LET newTask == [id |-> id,
                  titulo |-> input.titulo,
                  descricao |-> IF "descricao" \in DOMAIN input
                                THEN input.descricao ELSE null,
                  dataCriacao |-> t]
  IN ok(store, newTask)

\* create's resolver; id is crypto.randomUUID(), t is Date.now()
create(store, input, id, t) ==
  LET newTask == [id |-> id,
                  titulo |-> input.titulo,
                  descricao |-> IF "descricao" \in DOMAIN input
                                THEN input.descricao ELSE null,
                  dataCriacao |-> t]
  IN ok(MapSet(store, newTask.id, newTask), newTask)

\* mutant: the merged task is stored before the existence check
update_setBeforeCheck(store, input) ==
  LET existingTask == MapGet(store, input.id)
      updatedTask == IF existingTask = undefined THEN input
                     ELSE spread(existingTask, input)
      written == MapSet(store, input.id, updatedTask)
  IN IF existingTask = undefined
     THEN throw(written, TRPCError("NOT_FOUND", "Task not found"))
     ELSE ok(written, updatedTask)

\* mutant: a task that is not there is stored from the input (an upsert)
update_upsert(store, input) ==
  LET existingTask == MapGet(store, input.id)
      updatedTask == IF existingTask = undefined THEN input
                     ELSE spread(existingTask, input)
  IN ok(MapSet(store, input.id, updatedTask), updatedTask)

\* update's resolver
update(store, input) ==
  LET existingTask == MapGet(store, input.id)
  IN IF existingTask = undefined
     THEN throw(store, TRPCError("NOT_FOUND", "Task not found"))
     ELSE LET updatedTask == spread(existingTask, input)
          IN ok(MapSet(store, input.id, updatedTask), updatedTask)

\* delete's resolver
delete(store, input) ==
  LET existingTask == MapGet(store, input.id)
  IN IF existingTask = undefined
     THEN throw(store, TRPCError("NOT_FOUND", "Task not found"))
     ELSE ok(MapDelete(store, input.id), existingTask)

\* mutant: a task that is not there is an error, as in update and delete
getById_throwsWhenMissing(store, input) ==
  LET task == MapGet(store, input.id)
  IN IF task = undefined
     THEN throw(store, TRPCError("NOT_FOUND", "Task not found"))
     ELSE ok(store, task)

\* getById's resolver: task ?? null
getById(store, input) ==
  LET task == MapGet(store, input.id)
  IN ok(store, IF task = undefined THEN null ELSE task)

\* z.object({ cursor: z.number().optional() })
infiniteListSchema(input) ==
  IF input # undefined THEN success(strip(input, {"cursor"})) ELSE failure

\* mutant: nextCursor is set on every page that is not empty
infiniteList_cursorOnAnyPage(store, input) ==
  LET allTasks == sort(MapValues(store))
      isFirstPage == "cursor" \notin DOMAIN input
      limit == IF isFirstPage THEN 9 ELSE 3
      filteredTasks == IF truthy(input)
                       THEN SelectSeq(allTasks, LAMBDA task : task.dataCriacao < input.cursor)
                       ELSE allTasks
      pageTasks == slice(filteredTasks, limit)
      nextCursor == IF Len(pageTasks) > 0
                    THEN number(pageTasks[Len(pageTasks)].dataCriacao)
                    ELSE null
  IN ok(store, [tasks |-> pageTasks, nextCursor |-> nextCursor])

\* mutant: the cursor's own millisecond is kept (<= for <)
infiniteList_inclusiveCursor(store, input) ==
  LET allTasks == sort(MapValues(store))
      isFirstPage == "cursor" \notin DOMAIN input
      limit == IF isFirstPage THEN 9 ELSE 3
      filteredTasks == IF truthy(input)
                       THEN SelectSeq(allTasks, LAMBDA task : task.dataCriacao <= input.cursor)
                       ELSE allTasks
      pageTasks == slice(filteredTasks, limit)
      nextCursor == IF Len(pageTasks) = limit
                    THEN number(pageTasks[Len(pageTasks)].dataCriacao)
                    ELSE null
  IN ok(store, [tasks |-> pageTasks, nextCursor |-> nextCursor])

\* infiniteList's resolver: 9 tasks on the first page, 3 on the following ones
infiniteList(store, input) ==
  LET allTasks == sort(MapValues(store))
      isFirstPage == "cursor" \notin DOMAIN input
      limit == IF isFirstPage THEN 9 ELSE 3
      filteredTasks == IF truthy(input)
                       THEN SelectSeq(allTasks, LAMBDA task : task.dataCriacao < input.cursor)
                       ELSE allTasks
      pageTasks == slice(filteredTasks, limit)
      nextCursor == IF Len(pageTasks) = limit
                    THEN number(pageTasks[Len(pageTasks)].dataCriacao)
                    ELSE null
  IN ok(store, [tasks |-> pageTasks, nextCursor |-> nextCursor])

(************ taskRouterV2 (routers/task.router.ts, lines 65-128) **********)
\* update's resolver: throws a plain Error
updateV2(store, input) ==
  LET existingTask == MapGet(store, input.id)
  IN IF existingTask = undefined
     THEN throw(store, Error("Task not found"))
     ELSE LET updatedTask == spread(existingTask, input)
          IN ok(MapSet(store, input.id, updatedTask), updatedTask)

\* delete's resolver: throws a plain Error
deleteV2(store, input) ==
  LET existingTask == MapGet(store, input.id)
  IN IF existingTask = undefined
     THEN throw(store, Error("Task not found"))
     ELSE ok(MapDelete(store, input.id), existingTask)

(***************** apiTaskRouter (api/routers/task.ts) *********************)
\* mutant: the limit's max(50) is missing
apiListSchema_noMax(input) ==
  IF input = undefined THEN success(undefined)
  ELSE IF "limit" \in DOMAIN input /\ ~(input.limit >= 1)
  THEN failure
  ELSE success(spread([limit |-> 10], strip(input, {"limit", "cursor"})))

\* z.object({ limit: z.number().min(1).max(50).default(10),
\*            cursor: z.number().optional() }).optional()
apiListSchema(input) ==
  IF input = undefined THEN success(undefined)
  ELSE IF "limit" \in DOMAIN input /\ ~(input.limit >= 1 /\ input.limit <= 50)
  THEN failure
  ELSE success(spread([limit |-> 10], strip(input, {"limit", "cursor"})))

\* mutant: the cursor's own millisecond is kept (<= for <)
apiList_inclusiveCursor(store, input) ==
  LET limit == IF input = undefined THEN 10 ELSE input.limit
      sortedTasks == sort(store)
      filteredTasks == IF truthy(input)
                       THEN SelectSeq(sortedTasks, LAMBDA task : task.dataCriacao <= input.cursor)
                       ELSE sortedTasks
      paginatedTasks == slice(filteredTasks, limit)
      nextCursor == IF Len(paginatedTasks) = limit
                    THEN number(paginatedTasks[Len(paginatedTasks)].dataCriacao)
                    ELSE null
  IN ok(store, [items |-> paginatedTasks, nextCursor |-> nextCursor])

\* mutant: nextCursor is taken from the first task of the page
apiList_cursorOfFirst(store, input) ==
  LET limit == IF input = undefined THEN 10 ELSE input.limit
      sortedTasks == sort(store)
      filteredTasks == IF truthy(input)
                       THEN SelectSeq(sortedTasks, LAMBDA task : task.dataCriacao < input.cursor)
                       ELSE sortedTasks
      paginatedTasks == slice(filteredTasks, limit)
      nextCursor == IF Len(paginatedTasks) = limit
                    THEN number(paginatedTasks[1].dataCriacao)
                    ELSE null
  IN ok(store, [items |-> paginatedTasks, nextCursor |-> nextCursor])

\* list's resolver: one page of at most limit tasks older than the cursor
apiList(store, input) ==
  LET limit == IF input = undefined THEN 10 ELSE input.limit
      sortedTasks == sort(store)
      filteredTasks == IF truthy(input)
                       THEN SelectSeq(sortedTasks, LAMBDA task : task.dataCriacao < input.cursor)
                       ELSE sortedTasks
      paginatedTasks == slice(filteredTasks, limit)
      nextCursor == IF Len(paginatedTasks) = limit
                    THEN number(paginatedTasks[Len(paginatedTasks)].dataCriacao)
                    ELSE null
  IN ok(store, [items |-> paginatedTasks, nextCursor |-> nextCursor])

\* z.object({ titulo: z.string().min(1), descricao: z.string().optional() })
apiCreateSchema(input) ==
  IF "titulo" \in DOMAIN input /\ Len(input.titulo) >= 1
  THEN success(strip(input, {"titulo", "descricao"}))
  ELSE failure

\* create's resolver
apiCreate(store, input, id, t) ==
  LET newTask == [id |-> id,
                  titulo |-> input.titulo,
                  descricao |-> IF "descricao" \in DOMAIN input
                                THEN input.descricao ELSE undefined,
                  dataCriacao |-> t]
  IN ok(Append(store, newTask), newTask)

\* z.object({ id: z.string(), titulo: z.string().min(1),
\*            descricao: z.string().optional() })
apiUpdateSchema(input) ==
  IF "id" \in DOMAIN input /\ "titulo" \in DOMAIN input /\ Len(input.titulo) >= 1
  THEN success(strip(input, {"id", "titulo", "descricao"}))
  ELSE failure

\* tasks.findIndex((t) => t.id === id): 0 stands for -1
findIndex(store, id) ==
  IF \E i \in 1..Len(store) : store[i].id = id
  THEN CHOOSE i \in 1..Len(store) :
         store[i].id = id /\ \A j \in 1..(i - 1) : store[j].id # id
  ELSE 0

\* update's resolver
apiUpdate(store, input) ==
  LET taskIndex == findIndex(store, input.id)
  IN IF taskIndex = 0
     THEN throw(store, TRPCError("NOT_FOUND", "Tarefa não encontrada"))
     ELSE LET updated == spread(store[taskIndex],
                                [titulo |-> input.titulo,
                                 descricao |-> IF "descricao" \in DOMAIN input
                                               THEN input.descricao ELSE undefined])
          IN ok([store EXCEPT ![taskIndex] = updated], updated)

\* mutant: splice(taskIndex) without a count, which removes to the end
apiDelete_spliceToEnd(store, input) ==
  LET taskIndex == findIndex(store, input.id)
  IN IF taskIndex = 0
     THEN throw(store, TRPCError("NOT_FOUND", "Tarefa não encontrada"))
     ELSE ok(SubSeq(store, 1, taskIndex - 1), store[taskIndex])

\* delete's resolver
apiDelete(store, input) ==
  LET taskIndex == findIndex(store, input.id)
  IN IF taskIndex = 0
     THEN throw(store, TRPCError("NOT_FOUND", "Tarefa não encontrada"))
     ELSE ok(SubSeq(store, 1, taskIndex - 1) \o SubSeq(store, taskIndex + 1, Len(store)),
             store[taskIndex])

(************************* the procedures **********************************)
\* publicProcedure.input(schema).mutation(resolver): the resolver runs on the
\* parsed input, and only when the parse succeeds
callCreate(store, input, id, t) ==
  LET parsed == createTaskSchema(input)
  IN IF parsed.success THEN create(store, parsed.data, id, t) ELSE badRequest(store)

callUpdate(r, store, input) ==
  LET parsed == updateTaskSchema(input)
  IN IF ~parsed.success THEN badRequest(store)
     ELSE IF r = "taskRouterV2" THEN updateV2(store, parsed.data)
     ELSE update(store, parsed.data)

callDelete(r, store, input) ==
  LET parsed == idSchema(input)
  IN IF ~parsed.success THEN badRequest(store)
     ELSE IF r = "taskRouterV2" THEN deleteV2(store, parsed.data)
     ELSE delete(store, parsed.data)

callInfiniteList(store, input) ==
  LET parsed == infiniteListSchema(input)
  IN IF parsed.success THEN infiniteList(store, parsed.data) ELSE badRequest(store)

callGetById(store, input) ==
  LET parsed == idSchema(input)
  IN IF parsed.success THEN getById(store, parsed.data) ELSE badRequest(store)

callApiList(store, input) ==
  LET parsed == apiListSchema(input)
  IN IF parsed.success THEN apiList(store, parsed.data) ELSE badRequest(store)

callApiCreate(store, input, id, t) ==
  LET parsed == apiCreateSchema(input)
  IN IF parsed.success THEN apiCreate(store, parsed.data, id, t) ELSE badRequest(store)

callApiUpdate(store, input) ==
  LET parsed == apiUpdateSchema(input)
  IN IF parsed.success THEN apiUpdate(store, parsed.data) ELSE badRequest(store)

callApiDelete(store, input) ==
  LET parsed == idSchema(input)
  IN IF parsed.success THEN apiDelete(store, parsed.data) ELSE badRequest(store)

(***************************** the stores **********************************)
\* Date.now() when the store module is loaded
StartNow == 50000000

seed(k, titulo, descricao) ==
  [id |-> randomUUID(k), titulo |-> titulo, descricao |-> descricao,
   dataCriacao |-> StartNow - k * 3600000]

seedTasks ==
  << seed(1, "Implementar autenticação",
          string("Adicionar sistema de login com NextAuth.js")),
     seed(2, "Criar documentação",
          string("Documentar endpoints da API e componentes React")),
     seed(3, "Configurar CI/CD", null),
     seed(4, "Implementar testes unitários",
          string("Adicionar testes com Jest para componentes críticos")),
     seed(5, "Otimizar performance",
          string("Analisar bundle size e implementar code splitting")),
     seed(6, "Configurar Docker",
          string("Criar Dockerfile e docker-compose para ambiente de desenvolvimento")),
     seed(7, "Implementar cache Redis",
          string("Adicionar Redis para cache de queries frequentes")),
     seed(8, "Migrar para PostgreSQL",
          string("Substituir storage em memória por PostgreSQL com Prisma")),
     seed(9, "Adicionar validação avançada",
          string("Implementar validação de campos com mensagens customizadas")),
     seed(10, "Implementar notificações", null),
     seed(11, "Criar dashboard analytics",
          string("Adicionar gráficos e estatísticas de uso")),
     seed(12, "Implementar busca",
          string("Adicionar funcionalidade de busca por título e descrição")) >>

\* seedTasks.forEach((task) => tasksStore.set(task.id, task))
RECURSIVE populate(_, _)
populate(store, seeds) ==
  IF seeds = <<>> THEN store
  ELSE populate(MapSet(store, Head(seeds).id, Head(seeds)), Tail(seeds))

\* the array store of the api router
apiTasks ==
  << [id |-> 1, titulo |-> "Primeira tarefa", descricao |-> string("Teste SSR"),
      dataCriacao |-> StartNow - 2000],
     [id |-> 2, titulo |-> "Segunda tarefa", descricao |-> string("Outra task"),
      dataCriacao |-> StartNow - 1000] >>

\* randomUUID() calls made while the store module loads
seedUuids(r) == IF r = "taskRouter" THEN Len(seedTasks) ELSE 0

(************************** the callers' inputs ****************************)
Routers == {"taskRouter", "taskRouterV2", "apiTaskRouter"}
MapRouters == {"taskRouter", "taskRouterV2"}

Titles == {"", " ", "Buy milk", repeat("a", 121)}
Descriptions == {string("")}

\* ids a caller names: one no task ever has, the first seed, the first created
TargetIds(r) ==
  IF r = "taskRouter" THEN {0, randomUUID(1), randomUUID(seedUuids(r) + 1)}
  ELSE IF r = "taskRouterV2" THEN {0, randomUUID(1)}
  ELSE {0, 1, randomUUID(1)}

CreateInputs ==
  [titulo : Titles] \cup [titulo : Titles, descricao : Descriptions]

UpdateInputs(r) ==
  [id : TargetIds(r)] \cup [id : TargetIds(r), titulo : Titles]
    \cup [id : TargetIds(r), descricao : Descriptions]
    \cup [id : TargetIds(r), titulo : Titles, descricao : Descriptions]
    \cup [id : TargetIds(r), dataCriacao : {0}]

IdInputs(r) == [id : TargetIds(r)]

Result(op, input, r) ==
  IF r.ok THEN [op |-> op, input |-> input, ok |-> TRUE, value |-> r.value]
  ELSE [op |-> op, input |-> input, ok |-> FALSE, error |-> r.error]

(****************************** the model **********************************)
Init ==
  /\ router \in Routers
  /\ tasksStore = IF router = "taskRouter" THEN populate(<<>>, seedTasks) ELSE <<>>
  /\ tasks = IF router = "apiTaskRouter" THEN apiTasks ELSE <<>>
  /\ now = StartNow
  /\ uuidCount = seedUuids(router)
  /\ result = [op |-> "none"]
  /\ cache = undefined
  /\ pages = <<>>
  /\ item = undefined

\* the clock advances by a millisecond
Tick ==
  /\ now < StartNow + MaxTicks
  /\ now' = now + 1
  /\ UNCHANGED <<item, cache, pages, router, tasksStore, tasks, uuidCount, result>>

Create ==
  /\ router \in MapRouters
  /\ uuidCount < seedUuids(router) + MaxCreates
  /\ \E input \in CreateInputs :
       LET r == callCreate(tasksStore, input, randomUUID(uuidCount + 1), now)
       IN /\ tasksStore' = r.store
          /\ uuidCount' = IF r.ok THEN uuidCount + 1 ELSE uuidCount
          /\ result' = Result("create", input, r)
  /\ UNCHANGED <<item, cache, pages, router, tasks, now>>

Update ==
  /\ router \in MapRouters
  /\ \E input \in UpdateInputs(router) :
       LET r == callUpdate(router, tasksStore, input)
       IN /\ tasksStore' = r.store
          /\ result' = Result("update", input, r)
  /\ UNCHANGED <<item, cache, pages, router, tasks, now, uuidCount>>

Delete ==
  /\ router \in MapRouters
  /\ \E input \in IdInputs(router) :
       LET r == callDelete(router, tasksStore, input)
       IN /\ tasksStore' = r.store
          /\ result' = Result("delete", input, r)
  /\ UNCHANGED <<item, cache, pages, router, tasks, now, uuidCount>>

List ==
  /\ router \in MapRouters
  /\ result' = Result("list", undefined, ok(tasksStore, list(tasksStore)))
  /\ UNCHANGED <<item, cache, pages, router, tasksStore, tasks, now, uuidCount>>

ApiCreate ==
  /\ router = "apiTaskRouter"
  /\ uuidCount < seedUuids(router) + MaxCreates
  /\ \E input \in CreateInputs :
       LET r == callApiCreate(tasks, input, randomUUID(uuidCount + 1), now)
       IN /\ tasks' = r.store
          /\ uuidCount' = IF r.ok THEN uuidCount + 1 ELSE uuidCount
          /\ result' = Result("create", input, r)
  /\ UNCHANGED <<item, cache, pages, router, tasksStore, now>>

ApiUpdate ==
  /\ router = "apiTaskRouter"
  /\ \E input \in UpdateInputs(router) :
       LET r == callApiUpdate(tasks, input)
       IN /\ tasks' = r.store
          /\ result' = Result("update", input, r)
  /\ UNCHANGED <<item, cache, pages, router, tasksStore, now, uuidCount>>

ApiDelete ==
  /\ router = "apiTaskRouter"
  /\ \E input \in IdInputs(router) :
       LET r == callApiDelete(tasks, input)
       IN /\ tasks' = r.store
          /\ result' = Result("delete", input, r)
  /\ UNCHANGED <<item, cache, pages, router, tasksStore, now, uuidCount>>

Next ==
  \/ Tick
  \/ Create
  \/ Update
  \/ Delete
  \/ List
  \/ ApiCreate
  \/ ApiUpdate
  \/ ApiDelete

Spec == Init /\ [][Next]_vars

(********************* the paginated lists, on their own *******************)
\* Stores drawn for the paginated lists.  Tasks are inserted in the order of
\* their creation, so dataCriacao does not decrease along a store.
PageClock == {70, 80, 90, 100}

pageTask(k, t) == [id |-> k, titulo |-> "Buy milk", descricao |-> null, dataCriacao |-> t]

NonDecreasing(times) == \A i \in 1..(Len(times) - 1) : times[i] <= times[i + 1]

PageTimes ==
  {times \in UNION {[1..n -> PageClock] : n \in 0..MaxPageLen} : NonDecreasing(times)}

\* n tasks created in groups of g within the same millisecond
groupedTimes(n, g) == [k \in 1..n |-> 10 * ((k + g - 1) \div g)]

InfiniteTimes == {groupedTimes(n, g) : n \in 0..MaxInfiniteLen, g \in 1..3}

arrayOf(times) == [k \in 1..Len(times) |-> pageTask(k, times[k])]

mapOf(times) == [k \in 1..Len(times) |-> [key |-> k, value |-> pageTask(k, times[k])]]

\* cursors a caller passes: 0 and the dataCriacao of a task (a page's nextCursor)
CursorInputs(taskList) == {0} \cup {taskList[i].dataCriacao : i \in 1..Len(taskList)}

Limits == {0, 1, 2, 3, 50, 51}

ApiListInputs(store) ==
  {undefined, [k \in {} |-> 0]}
    \cup [limit : Limits] \cup [cursor : CursorInputs(store)]
    \cup [limit : Limits, cursor : CursorInputs(store)]

InfiniteListInputs(store) ==
  {[k \in {} |-> 0]} \cup [cursor : CursorInputs(MapValues(store))]

InitPage ==
  /\ router \in {"taskRouter", "apiTaskRouter"}
  /\ tasksStore \in IF router = "taskRouter"
                    THEN {mapOf(times) : times \in InfiniteTimes} ELSE {<<>>}
  /\ tasks \in IF router = "apiTaskRouter"
               THEN {arrayOf(times) : times \in PageTimes}
                      \cup {arrayOf(groupedTimes(MaxDefaultLen, 1))}
               ELSE {<<>>}
  /\ now = StartNow
  /\ uuidCount = 0
  /\ result = [op |-> "none"]
  /\ cache = undefined
  /\ pages = <<>>
  /\ item = undefined

ApiList ==
  /\ router = "apiTaskRouter"
  /\ \E input \in ApiListInputs(tasks) :
       result' = Result("list", input, callApiList(tasks, input))
  /\ UNCHANGED <<item, cache, pages, router, tasksStore, tasks, now, uuidCount>>

InfiniteList ==
  /\ router = "taskRouter"
  /\ \E input \in InfiniteListInputs(tasksStore) :
       result' = Result("infiniteList", input, callInfiniteList(tasksStore, input))
  /\ UNCHANGED <<item, cache, pages, router, tasksStore, tasks, now, uuidCount>>

NextPage ==
  \/ ApiList
  \/ InfiniteList

PageSpec == InitPage /\ [][NextPage]_vars

(****************** a client walking the pages of infiniteList *************)
\* The server module is loaded, the client's infinite query has no page yet.
InitWalk ==
  /\ router = "taskRouter"
  /\ tasksStore = populate(<<>>, seedTasks)
  /\ tasks = <<>>
  /\ now = StartNow
  /\ uuidCount = seedUuids(router)
  /\ result = [op |-> "none"]
  /\ cache = undefined
  /\ pages = <<>>
  /\ item = undefined

\* getNextPageParam: (lastPage) => lastPage.nextCursor ?? undefined
getNextPageParam(lastPage) ==
  IF lastPage.nextCursor = null THEN undefined ELSE lastPage.nextCursor

\* the query's first fetch: infiniteList({})
FetchFirstPage ==
  /\ router = "taskRouter"
  /\ pages = <<>>
  /\ LET input == [k \in {} |-> 0]
         r == callInfiniteList(tasksStore, input)
     IN /\ result' = Result("infiniteList", input, r)
        /\ pages' = <<r.value>>
  /\ UNCHANGED <<item, cache, router, tasksStore, tasks, now, uuidCount>>

\* fetchNextPage(), possible while hasNextPage: infiniteList({ cursor })
FetchNextPage ==
  /\ router = "taskRouter"
  /\ pages # <<>>
  /\ getNextPageParam(pages[Len(pages)]) # undefined
  /\ LET input == [cursor |-> getNextPageParam(pages[Len(pages)]).value]
         r == callInfiniteList(tasksStore, input)
     IN /\ result' = Result("infiniteList", input, r)
        /\ pages' = Append(pages, r.value)
  /\ UNCHANGED <<item, cache, router, tasksStore, tasks, now, uuidCount>>

\* tasks are created and deleted while the client walks
NextWalk ==
  \/ Tick
  \/ Create
  \/ Delete
  \/ FetchFirstPage
  \/ FetchNextPage

WalkSpec == InitWalk /\ [][NextWalk]_vars

(************* a caller walking the pages of a store at rest ***************)
\* limits a caller of the api router's list walks with
WalkLimits == {1, 2, 3}

\* the tasks of a page: items of the api router's list, tasks of infiniteList
PageTasks(page) == IF "items" \in DOMAIN page THEN page.items ELSE page.tasks

\* A store drawn as for the paginated lists, and no page fetched yet.
InitStoreWalk ==
  /\ router \in {"taskRouter", "apiTaskRouter"}
  /\ tasksStore \in IF router = "taskRouter"
                    THEN {mapOf(times) : times \in InfiniteTimes} ELSE {<<>>}
  /\ tasks \in IF router = "apiTaskRouter"
               THEN {arrayOf(times) : times \in PageTimes} ELSE {<<>>}
  /\ now = StartNow
  /\ uuidCount = 0
  /\ result = [op |-> "none"]
  /\ cache = undefined
  /\ pages = <<>>
  /\ item = undefined

\* the first request of a walk of the api router's list: list({ limit })
ApiFetchFirstPage ==
  /\ router = "apiTaskRouter"
  /\ pages = <<>>
  /\ \E limit \in WalkLimits :
       LET input == [limit |-> limit]
           r == callApiList(tasks, input)
       IN /\ result' = Result("list", input, r)
          /\ pages' = <<r.value>>
  /\ UNCHANGED <<item, cache, router, tasksStore, tasks, now, uuidCount>>

\* the next request, made while the last page has a nextCursor: the same
\* limit, and that nextCursor as cursor
ApiFetchNextPage ==
  /\ router = "apiTaskRouter"
  /\ pages # <<>>
  /\ getNextPageParam(pages[Len(pages)]) # undefined
  /\ LET input == [limit |-> result.input.limit,
                   cursor |-> getNextPageParam(pages[Len(pages)]).value]
         r == callApiList(tasks, input)
     IN /\ result' = Result("list", input, r)
        /\ pages' = Append(pages, r.value)
  /\ UNCHANGED <<item, cache, router, tasksStore, tasks, now, uuidCount>>

NextStoreWalk ==
  \/ FetchFirstPage
  \/ FetchNextPage
  \/ ApiFetchFirstPage
  \/ ApiFetchNextPage

StoreWalkSpec == InitStoreWalk /\ [][NextStoreWalk]_vars

\* a request that can be made is made in the end
FairStoreWalkSpec == StoreWalkSpec /\ WF_vars(NextStoreWalk)

(**************** the queries, among create and delete calls ***************)
GetById ==
  /\ router = "taskRouter"
  /\ \E input \in IdInputs(router) :
       LET r == callGetById(tasksStore, input)
       IN /\ tasksStore' = r.store
          /\ result' = Result("getById", input, r)
  /\ UNCHANGED <<item, cache, pages, router, tasks, now, uuidCount>>

\* infiniteList and the api router's list on the store as it is
InfiniteListNow ==
  /\ router = "taskRouter"
  /\ \E input \in InfiniteListInputs(tasksStore) :
       LET r == callInfiniteList(tasksStore, input)
       IN /\ tasksStore' = r.store
          /\ result' = Result("infiniteList", input, r)
  /\ UNCHANGED <<item, cache, pages, router, tasks, now, uuidCount>>

ApiListNow ==
  /\ router = "apiTaskRouter"
  /\ \E input \in ApiListInputs(tasks) :
       LET r == callApiList(tasks, input)
       IN /\ tasks' = r.store
          /\ result' = Result("list", input, r)
  /\ UNCHANGED <<item, cache, pages, router, tasksStore, now, uuidCount>>

NextRead ==
  \/ List
  \/ GetById
  \/ InfiniteListNow
  \/ ApiListNow
  \/ Create
  \/ Delete
  \/ ApiCreate
  \/ ApiDelete

ReadSpec == Init /\ [][NextRead]_vars

(************* one client: TaskForm and TaskItem over task.list ************)
\* what the user types into a title or description field
TypedTitles == {"", " Buy milk ", repeat("a", 121)}
TypedDescriptions == {"", " note "}

\* handleSubmit / handleSave: an empty trimmed title is refused on the client;
\* otherwise the mutation gets titulo: title.trim() and
\* descricao: description.trim() || undefined (no descricao key on the wire)
mutationInputs(base) ==
  {IF trim(d) = "" THEN spread(base, [titulo |-> trim(t)])
   ELSE spread(base, [titulo |-> trim(t), descricao |-> string(trim(d))]) :
     t \in {x \in TypedTitles : trim(x) # ""}, d \in TypedDescriptions}

\* the tasks whose TaskItem the user acts on: the first seed and the tasks
\* the client created
ClientTargets ==
  {randomUUID(1)} \cup {randomUUID(seedUuids(router) + n) : n \in 1..MaxClientCreates}

\* utils.task.list.setData(undefined, data): the query's data
setData(data) == [data |-> data]

\* utils.task.list.getData() is not undefined (an empty array is truthy)
hasData(query) == "data" \in DOMAIN query

\* page.tsx fetches list() on the server and TaskList hydrates task.list with it
InitClient ==
  /\ router \in MapRouters
  /\ tasksStore = IF router = "taskRouter" THEN populate(<<>>, seedTasks) ELSE <<>>
  /\ tasks = <<>>
  /\ now = StartNow
  /\ uuidCount = seedUuids(router)
  /\ result = [op |-> "none"]
  /\ cache = setData(list(tasksStore))
  /\ pages = <<>>
  /\ item = undefined

\* createTask.mutate and its onSuccess: the new task is put before the cached
\* ones; without cached data the query is invalidated and fetched again
ClientCreate ==
  /\ uuidCount < seedUuids(router) + MaxClientCreates
  /\ \E input \in mutationInputs([k \in {} |-> 0]) :
       LET r == callCreate(tasksStore, input, randomUUID(uuidCount + 1), now)
       IN /\ tasksStore' = r.store
          /\ uuidCount' = IF r.ok THEN uuidCount + 1 ELSE uuidCount
          /\ result' = Result("create", input, r)
          /\ cache' = IF ~r.ok THEN cache
                      ELSE IF hasData(cache) THEN setData(<<r.value>> \o cache.data)
                      ELSE setData(list(r.store))
  /\ UNCHANGED <<item, pages, router, tasks, now>>

\* updateTask.mutate from the TaskItem of a cached task, and its onSuccess: the
\* cached task of that id is replaced by the task returned
ClientUpdate ==
  /\ hasData(cache)
  /\ \E i \in 1..Len(cache.data) :
       /\ cache.data[i].id \in ClientTargets
       /\ \E input \in mutationInputs([id |-> cache.data[i].id]) :
            LET r == callUpdate(router, tasksStore, input)
            IN /\ tasksStore' = r.store
               /\ result' = Result("update", input, r)
               /\ cache' = IF ~r.ok THEN cache
                           ELSE setData([j \in 1..Len(cache.data) |->
                                           IF cache.data[j].id = r.value.id
                                           THEN r.value ELSE cache.data[j]])
  /\ UNCHANGED <<item, pages, router, tasks, now, uuidCount>>

\* deleteTask.mutate from the TaskItem of a cached task, and its onSuccess: the
\* cached tasks of that id are filtered out
ClientDelete ==
  /\ hasData(cache)
  /\ \E i \in 1..Len(cache.data) :
       /\ cache.data[i].id \in ClientTargets
       /\ LET input == [id |-> cache.data[i].id]
              r == callDelete(router, tasksStore, input)
          IN /\ tasksStore' = r.store
             /\ result' = Result("delete", input, r)
             /\ cache' = IF ~r.ok THEN cache
                         ELSE setData(SelectSeq(cache.data,
                                                LAMBDA t : t.id # cache.data[i].id))
  /\ UNCHANGED <<item, pages, router, tasks, now, uuidCount>>

NextClient ==
  \/ Tick
  \/ ClientCreate
  \/ ClientUpdate
  \/ ClientDelete

ClientSpec == InitClient /\ [][NextClient]_vars

(********************* one TaskItem (app/TaskItem.tsx) *********************)
\* The component's names title and description are the router's titulo and
\* descricao.  updateTask and deleteTask hold the inputs of the requests sent
\* and not yet settled: isPending is true while there is one.

\* x || '' on a description: null, undefined and '' are falsy
orEmpty(d) == IF d \in {null, undefined, string("")} THEN "" ELSE d.value

\* x ?? '' on a description: null and undefined are nullish
nullishEmpty(d) == IF d \in {null, undefined} THEN "" ELSE d.value

\* the tasks whose TaskItem is followed: a seed with a description, one without
ItemIds == {randomUUID(1), randomUUID(3)}

\* the item is rendered while task.list holds its task
Mounted == hasData(cache) /\ \E i \in 1..Len(cache.data) : cache.data[i].id = item.id

\* the task prop: the task of the item's key in the list rendered
taskProp == cache.data[CHOOSE i \in 1..Len(cache.data) : cache.data[i].id = item.id]

\* the useState calls of a TaskItem mounted with a task
useState(t) ==
  [id |-> t.id,
   isEditing |-> FALSE,
   isConfirmingDelete |-> FALSE,
   titulo |-> t.titulo,
   descricao |-> orEmpty(t.descricao),
   error |-> "",
   updateTask |-> <<>>,
   deleteTask |-> <<>>]

isSaving == item.updateTask # <<>>
isDeleting == item.deleteTask # <<>>

originalDescricao == nullishEmpty(taskProp.descricao)

hasChanges == trim(item.titulo) # taskProp.titulo \/ trim(item.descricao) # originalDescricao

\* mutant: the Save button is disabled only without changes
saveDisabled_whilePendingEnabled(saving, changes) == ~changes

\* the Save button's disabled attribute: isSaving || !hasChanges
saveDisabled(saving, changes) == saving \/ ~changes

\* handleSave's frontend validation: !titulo.trim()
saveRefused(titulo) == trim(titulo) = ""

\* the input handleSave gives to updateTask.mutate
saveInput ==
  IF trim(item.descricao) = ""
  THEN [id |-> taskProp.id, titulo |-> trim(item.titulo)]
  ELSE [id |-> taskProp.id, titulo |-> trim(item.titulo),
        descricao |-> string(trim(item.descricao))]

\* page.tsx fetches list() on the server, TaskList renders it, and one of its
\* TaskItems is followed
InitItem ==
  /\ router = "taskRouter"
  /\ tasksStore = populate(<<>>, seedTasks)
  /\ tasks = <<>>
  /\ now = StartNow
  /\ uuidCount = seedUuids(router)
  /\ result = [op |-> "none"]
  /\ cache = setData(list(tasksStore))
  /\ pages = <<>>
  /\ \E id \in ItemIds : item = useState(MapGet(tasksStore, id))

\* mutant: the Edit and Delete buttons stay rendered during the confirmation
actionsVisible_whileConfirming(editing, confirming) == ~editing

\* the Edit and Delete buttons are rendered when the editor is not
\* (if (isEditing) return ...) and under !isConfirmingDelete
actionsVisible(editing, confirming) == ~editing /\ ~confirming

\* the Edit button
handleEdit ==
  /\ Mounted
  /\ actionsVisible(item.isEditing, item.isConfirmingDelete)
  /\ item' = [item EXCEPT !.isEditing = TRUE]
  /\ UNCHANGED <<cache, pages, router, tasksStore, tasks, now, uuidCount, result>>

\* the title input's onChange, enabled in edit mode while nothing is saving
onChangeTitulo ==
  /\ Mounted
  /\ item.isEditing /\ ~isSaving
  /\ \E value \in TypedTitles :
       item' = [item EXCEPT !.titulo = value, !.error = ""]
  /\ UNCHANGED <<cache, pages, router, tasksStore, tasks, now, uuidCount, result>>

\* the description textarea's onChange
onChangeDescricao ==
  /\ Mounted
  /\ item.isEditing /\ ~isSaving
  /\ \E value \in TypedDescriptions :
       item' = [item EXCEPT !.descricao = value, !.error = ""]
  /\ UNCHANGED <<cache, pages, router, tasksStore, tasks, now, uuidCount, result>>

\* the Save button: handleSave
handleSave ==
  /\ Mounted
  /\ item.isEditing
  /\ ~saveDisabled(isSaving, hasChanges)
  /\ item' = IF saveRefused(item.titulo)
             THEN [item EXCEPT !.error = "Título é obrigatório"]
             ELSE [item EXCEPT !.error = "",
                               !.updateTask = Append(item.updateTask, saveInput)]
  /\ UNCHANGED <<cache, pages, router, tasksStore, tasks, now, uuidCount, result>>

\* the Cancel button of the editor, disabled while saving
handleCancel ==
  /\ Mounted
  /\ item.isEditing /\ ~isSaving
  /\ item' = [item EXCEPT !.titulo = taskProp.titulo,
                          !.descricao = orEmpty(taskProp.descricao),
                          !.error = "",
                          !.isEditing = FALSE]
  /\ UNCHANGED <<cache, pages, router, tasksStore, tasks, now, uuidCount, result>>

\* the Delete button
handleDelete ==
  /\ Mounted
  /\ actionsVisible(item.isEditing, item.isConfirmingDelete)
  /\ item' = [item EXCEPT !.error = "", !.isConfirmingDelete = TRUE]
  /\ UNCHANGED <<cache, pages, router, tasksStore, tasks, now, uuidCount, result>>

\* the Confirm button of the confirmation, disabled while deleting
handleConfirmDelete ==
  /\ Mounted
  /\ ~item.isEditing /\ item.isConfirmingDelete /\ ~isDeleting
  /\ item' = [item EXCEPT !.error = "",
                          !.deleteTask = Append(item.deleteTask, [id |-> taskProp.id])]
  /\ UNCHANGED <<cache, pages, router, tasksStore, tasks, now, uuidCount, result>>

\* the Cancel button of the confirmation, disabled while deleting
handleCancelDelete ==
  /\ Mounted
  /\ ~item.isEditing /\ item.isConfirmingDelete /\ ~isDeleting
  /\ item' = [item EXCEPT !.error = "", !.isConfirmingDelete = FALSE]
  /\ UNCHANGED <<cache, pages, router, tasksStore, tasks, now, uuidCount, result>>

\* the server handles the update request sent first, and updateTask's
\* onSuccess or onError runs
UpdateSettled ==
  /\ Mounted
  /\ item.updateTask # <<>>
  /\ LET input == Head(item.updateTask)
         r == callUpdate(router, tasksStore, input)
     IN /\ tasksStore' = r.store
        /\ result' = Result("update", input, r)
        /\ item' = IF r.ok
                   THEN [item EXCEPT !.isEditing = FALSE, !.error = "",
                                     !.updateTask = Tail(item.updateTask)]
                   ELSE [item EXCEPT !.error = r.error.message,
                                     !.updateTask = Tail(item.updateTask)]
        /\ cache' = IF ~r.ok THEN cache
                    ELSE IF hasData(cache)
                    THEN setData([j \in 1..Len(cache.data) |->
                                    IF cache.data[j].id = r.value.id
                                    THEN r.value ELSE cache.data[j]])
                    ELSE setData(list(r.store))
  /\ UNCHANGED <<pages, router, tasks, now, uuidCount>>

\* the server handles the delete request sent first, and deleteTask's
\* onSuccess or onError runs
DeleteSettled ==
  /\ Mounted
  /\ item.deleteTask # <<>>
  /\ LET input == Head(item.deleteTask)
         r == callDelete(router, tasksStore, input)
     IN /\ tasksStore' = r.store
        /\ result' = Result("delete", input, r)
        /\ item' = IF r.ok
                   THEN [item EXCEPT !.deleteTask = Tail(item.deleteTask)]
                   ELSE [item EXCEPT !.error = r.error.message,
                                     !.deleteTask = Tail(item.deleteTask)]
        /\ cache' = IF ~r.ok THEN cache
                    ELSE IF hasData(cache)
                    THEN setData(SelectSeq(cache.data, LAMBDA t : t.id # taskProp.id))
                    ELSE setData(list(r.store))
  /\ UNCHANGED <<pages, router, tasks, now, uuidCount>>

\* Delete is a delete call of another client: this client's list keeps the task
NextItem ==
  \/ handleEdit
  \/ onChangeTitulo
  \/ onChangeDescricao
  \/ handleSave
  \/ handleCancel
  \/ handleDelete
  \/ handleConfirmDelete
  \/ handleCancelDelete
  \/ UpdateSettled
  \/ DeleteSettled
  \/ Delete

ItemSpec == InitItem /\ [][NextItem]_vars

(***************************** the claims **********************************)
\* what the formulas below read off a state
StoreTasks == IF router = "apiTaskRouter" THEN tasks ELSE MapValues(tasksStore)
StoreIds == {StoreTasks[i].id : i \in 1..Len(StoreTasks)}
Elements(seq) == {seq[i] : i \in 1..Len(seq)}
Times(seq) == [i \in 1..Len(seq) |-> seq[i].dataCriacao]
IsNotFound(error) == "code" \in DOMAIN error /\ error.code = "NOT_FOUND"
IsValidation(error) == "code" \in DOMAIN error /\ error.code = "BAD_REQUEST"
Called(op) == result.op = op
SameResult(r1, r2) ==
  /\ r1.op = r2.op
  /\ r1.op # "none" =>
       /\ r1.input = r2.input
       /\ r1.ok = r2.ok
       /\ IF r1.ok THEN r1.value = r2.value ELSE r1.error = r2.error
\* the step is a call of op: it leaves the call's outcome in result
Calls(op) == result'.op = op /\ ~SameResult(result, result')

\* C1: a create call with a valid input returns a task whose id was not an id
\* of the store before the call, and the task is in the store afterwards: an
\* element of list() for the Map routers, of the array the api router's list
\* pages through.
C1_CreateFreshAndListed ==
  [][(Calls("create") /\ result'.ok) =>
       /\ result'.value.id \notin StoreIds
       /\ router \in MapRouters => result'.value \in Elements(list(tasksStore'))
       /\ router = "apiTaskRouter" => result'.value \in Elements(tasks')]_vars

C1_Witness ==
  /\ router = "taskRouter"
  /\ Called("create") /\ result.ok
  /\ result.value \in Elements(list(tasksStore))
  /\ Len(tasksStore) = Len(seedTasks) + 1

\* C5: in every reachable state list() holds exactly the tasks of the store,
\* each as often as the store does, and dataCriacao never increases from one
\* element to the next.
C5_ListSortedPermutation ==
  router \in MapRouters =>
    LET l == list(tasksStore)
        v == MapValues(tasksStore)
    IN /\ Len(l) = Len(v)
       /\ \A x \in Elements(l) \cup Elements(v) :
            Cardinality({i \in 1..Len(l) : l[i] = x})
              = Cardinality({i \in 1..Len(v) : v[i] = x})
       /\ \A i \in 1..(Len(l) - 1) : l[i].dataCriacao >= l[i + 1].dataCriacao

C5_Witness ==
  /\ router = "taskRouter"
  /\ Called("list") /\ result.value = list(tasksStore)
  /\ Len(result.value) = Len(seedTasks) + 1
  /\ result.value[1] = tasksStore[Len(tasksStore)].value
  /\ result.value[1].dataCriacao > result.value[2].dataCriacao

\* C10: a create, update or delete call that ends in an error leaves the store
\* as it was.
C10_FailureLeavesStore ==
  [][(result'.op \in {"create", "update", "delete"} /\ ~result'.ok) =>
       (tasksStore' = tasksStore /\ tasks' = tasks)]_vars

C10_Witness ==
  /\ Called("update") /\ ~result.ok
  /\ IsNotFound(result.error)
  /\ "titulo" \in DOMAIN result.input
  /\ tasksStore # <<>>

\* the schema of the router's update, on the caller's input
UpdateInputValid(input) ==
  IF router = "apiTaskRouter" THEN apiUpdateSchema(input).success
  ELSE updateTaskSchema(input).success

\* C2: in every router, an update call that names an id the store does not
\* hold (with an input its schema accepts) fails with a TRPCError of code
\* NOT_FOUND and leaves the store as it was.
C2_UpdateMissingIsNotFound ==
  [][(Calls("update") /\ result'.input.id \notin StoreIds
        /\ UpdateInputValid(result'.input)) =>
       /\ ~result'.ok
       /\ IsNotFound(result'.error)
       /\ tasksStore' = tasksStore /\ tasks' = tasks]_vars

\* C3: a delete of an id the store holds removes it, so that list() holds no
\* task of that id; a second delete of the id, straight after, fails with a
\* TRPCError of code NOT_FOUND and changes nothing.
C3_DeleteThenNotFound ==
  [][/\ (Calls("delete") /\ result'.input.id \in StoreIds) =>
          /\ result'.ok
          /\ router \in MapRouters =>
               \A i \in 1..Len(list(tasksStore')) :
                 list(tasksStore')[i].id # result'.input.id
          /\ router = "apiTaskRouter" =>
               \A i \in 1..Len(tasks') : tasks'[i].id # result'.input.id
     /\ (Called("delete") /\ result.ok /\ Calls("delete")
           /\ result'.input.id = result.input.id) =>
          /\ ~result'.ok
          /\ IsNotFound(result'.error)
          /\ tasksStore' = tasksStore /\ tasks' = tasks]_vars

\* the task the store holds under id
Stored(taskList, id) == taskList[CHOOSE i \in 1..Len(taskList) : taskList[i].id = id]

\* C4: an update of a task of the store changes only the fields the input
\* gives: without titulo the stored titulo stays, without descricao the stored
\* descricao stays, and the task returned is the task stored afterwards.
C4_UpdateMergesProvidedFields ==
  [][(Calls("update") /\ result'.ok) =>
       LET id == result'.input.id
           before == Stored(StoreTasks, id)
           after == Stored(StoreTasks', id)
       IN /\ "titulo" \notin DOMAIN result'.input => after.titulo = before.titulo
          /\ "descricao" \notin DOMAIN result'.input => after.descricao = before.descricao
          /\ result'.value = after]_vars

\* C9: create, and update when it gives a title, fail with a validation error
\* when the title trimmed of whitespace is empty or longer than 120
\* characters; create succeeds otherwise.
C9_TrimmedTitleValidated ==
  LET bad(title) == Len(trim(title)) = 0 \/ Len(trim(title)) > 120
  IN /\ (Called("create") /\ bad(result.input.titulo)) =>
          (~result.ok /\ IsValidation(result.error))
     /\ (Called("create") /\ ~bad(result.input.titulo)) => result.ok
     /\ (Called("update") /\ "titulo" \in DOMAIN result.input
           /\ bad(result.input.titulo)) =>
          (~result.ok /\ IsValidation(result.error))

\* a page and the limit it was asked with
PageCalled == (Called("list") \/ Called("infiniteList")) /\ result.ok
PageItems == IF Called("list") THEN result.value.items ELSE result.value.tasks
PageLimit ==
  IF Called("infiniteList") THEN (IF "cursor" \in DOMAIN result.input THEN 3 ELSE 9)
  ELSE IF result.input # undefined /\ "limit" \in DOMAIN result.input
  THEN result.input.limit ELSE 10
CursorGiven == result.input # undefined /\ "cursor" \in DOMAIN result.input

\* the store of four tasks created at 70, 80, 90 and 100
FourTasks ==
  /\ router = "apiTaskRouter"
  /\ Len(tasks) = 4
  /\ Elements(Times(tasks)) = {100, 90, 80, 70}

\* C6 as stated: with the four tasks and limit 2, the page without a cursor is
\* [100, 90] with nextCursor 90, and the page of cursor 90 is [80, 70] with
\* nextCursor null.
C6_ExampleAsStated ==
  (FourTasks /\ Called("list") /\ result.ok) =>
    /\ result.input = [limit |-> 2] =>
         (Times(PageItems) = <<100, 90>> /\ result.value.nextCursor = number(90))
    /\ result.input = [limit |-> 2, cursor |-> 90] =>
         (Times(PageItems) = <<80, 70>> /\ result.value.nextCursor = null)

\* C6, amended: the page of cursor 90 is [80, 70] with nextCursor 70 (it is
\* full), and the page of cursor 70 is empty with nextCursor null.
C6_ExamplePages ==
  (FourTasks /\ Called("list") /\ result.ok) =>
    /\ result.input = [limit |-> 2] =>
         (Times(PageItems) = <<100, 90>> /\ result.value.nextCursor = number(90))
    /\ result.input = [limit |-> 2, cursor |-> 90] =>
         (Times(PageItems) = <<80, 70>> /\ result.value.nextCursor = number(70))
    /\ result.input = [limit |-> 2, cursor |-> 70] =>
         (Times(PageItems) = <<>> /\ result.value.nextCursor = null)

C6_Witness ==
  /\ FourTasks
  /\ Called("list") /\ result.ok
  /\ result.input = [limit |-> 2, cursor |-> 90]
  /\ Len(PageItems) = 2

\* C7: a page of exactly limit tasks has the dataCriacao of its last task as
\* nextCursor, and nextCursor is null exactly when the page has fewer than
\* limit tasks.
C7_NextCursor ==
  PageCalled =>
    /\ Len(PageItems) = PageLimit =>
         result.value.nextCursor = number(PageItems[Len(PageItems)].dataCriacao)
    /\ result.value.nextCursor = null <=> Len(PageItems) < PageLimit

C7_Witness ==
  /\ Called("infiniteList") /\ result.ok
  /\ "cursor" \in DOMAIN result.input
  /\ Len(PageItems) = 3
  /\ result.value.nextCursor = number(PageItems[3].dataCriacao)

\* C8: when a cursor is given, 0 included, every task of the page is older
\* than the cursor, and the page is the first limit tasks, newest first, of
\* the tasks older than the cursor.
C8_CursorFilters ==
  (PageCalled /\ CursorGiven) =>
    /\ \A i \in 1..Len(PageItems) : PageItems[i].dataCriacao < result.input.cursor
    /\ PageItems
         = slice(SelectSeq(sort(StoreTasks),
                           LAMBDA task : task.dataCriacao < result.input.cursor),
                 PageLimit)

\* a descricao that marks the absence of a description
Absent(descricao) == descricao \in {null, undefined}

\* C11: a create without descricao stores and returns a task whose descricao
\* is the absent marker, which is not the empty string; a create with
\* descricao "" stores and returns the empty string; and no call turns a stored
\* "" into the absent marker or a stored absent marker into "", unless it is
\* an update of that task that gives a descricao.
C11_AbsentIsNotEmptyString ==
  [][/\ (Calls("create") /\ result'.ok) =>
          /\ Stored(StoreTasks', result'.value.id) = result'.value
          /\ "descricao" \notin DOMAIN result'.input =>
               (Absent(result'.value.descricao) /\ result'.value.descricao # string(""))
          /\ "descricao" \in DOMAIN result'.input =>
               result'.value.descricao = result'.input.descricao
     /\ \A id \in StoreIds \cap StoreIds' :
          ~(Calls("update") /\ result'.input.id = id
              /\ "descricao" \in DOMAIN result'.input) =>
            LET before == Stored(StoreTasks, id).descricao
                after == Stored(StoreTasks', id).descricao
            IN /\ before = string("") => ~Absent(after)
               /\ Absent(before) => after # string("")]_vars

\* the id and dataCriacao of every task of a list
Created(taskList) ==
  {<<taskList[i].id, taskList[i].dataCriacao>> : i \in 1..Len(taskList)}

\* C12: a task keeps its id and its dataCriacao for as long as the store holds
\* it, whatever is called: a task of the store after a step has an id that no
\* task had before the step, or the id and dataCriacao of a task before it.  A
\* successful update returns a task of the id asked for, with the dataCriacao
\* stored before, and the stored task keeps exactly the fields it had.
C12_IdAndCreatedAtImmutable ==
  [][/\ (tasksStore' # tasksStore \/ tasks' # tasks) =>
          LET before == Created(StoreTasks)
              ids == StoreIds
              after == StoreTasks'
          IN \A i \in 1..Len(after) :
               \/ after[i].id \notin ids
               \/ <<after[i].id, after[i].dataCriacao>> \in before
     /\ (result'.op = "update" /\ result'.ok /\ ~SameResult(result, result')) =>
          LET before == StoreTasks
              after == StoreTasks'
              id == result'.input.id
          IN /\ result'.value.id = id
             /\ <<id, result'.value.dataCriacao>> \in Created(before)
             /\ \A i \in 1..Len(after) :
                  after[i].id = id =>
                    \A j \in 1..Len(before) :
                      before[j].id = id => DOMAIN after[i] = DOMAIN before[j]]_vars

C12_Witness ==
  /\ Called("update") /\ result.ok
  /\ "dataCriacao" \in DOMAIN result.input
  /\ result.value.dataCriacao # result.input.dataCriacao
  /\ Stored(StoreTasks, result.input.id) = result.value

\* C13: a successful delete returns the task the store held under the id just
\* before the call, and the store afterwards is the store before without that
\* task: every other task is still there, unchanged and in its place.
C13_DeleteReturnsRemoved ==
  [][(Calls("delete") /\ result'.ok) =>
       /\ result'.input.id \in StoreIds
       /\ result'.value = Stored(StoreTasks, result'.input.id)
       /\ StoreTasks' = SelectSeq(StoreTasks, LAMBDA task : task.id # result'.input.id)
       /\ router \in MapRouters =>
            tasksStore' = SelectSeq(tasksStore, LAMBDA e : e.key # result'.input.id)]_vars

C13_Witness ==
  /\ Called("delete") /\ result.ok
  /\ result.value.id \notin StoreIds
  /\ Len(StoreTasks) >= 2
  /\ StoreTasks[Len(StoreTasks)].dataCriacao > result.value.dataCriacao

\* C14: in every reachable state no two tasks of the store have the same id,
\* and every entry of the Map has the id of its task as its key.
C14_UniqueIds ==
  /\ \A i, j \in 1..Len(StoreTasks) : StoreTasks[i].id = StoreTasks[j].id => i = j
  /\ router \in MapRouters =>
       /\ \A i, j \in 1..Len(tasksStore) : tasksStore[i].key = tasksStore[j].key => i = j
       /\ \A i \in 1..Len(tasksStore) : tasksStore[i].key = tasksStore[i].value.id

C14_Witness ==
  /\ router = "taskRouter"
  /\ Called("update") /\ result.ok
  /\ Len(tasksStore) = Len(seedTasks) + 1
  /\ result.value.id = randomUUID(Len(seedTasks) + 1)
  /\ Stored(StoreTasks, result.value.id) = result.value

\* C15: in every reachable state every task of the store has a titulo that,
\* trimmed of whitespace, is not empty and has at most 120 characters.
C15_StoredTitlesValid ==
  \A i \in 1..Len(StoreTasks) :
    /\ Len(trim(StoreTasks[i].titulo)) >= 1
    /\ Len(trim(StoreTasks[i].titulo)) <= 120

LimitGiven == result.input # undefined /\ "limit" \in DOMAIN result.input

\* C16: the api router's list succeeds exactly when the limit is omitted or
\* lies between 1 and 50, fails with a validation error otherwise, never
\* returns more than limit tasks, and with the limit omitted returns the 10
\* newest tasks (all of them when the store has fewer).
C16_LimitBounds ==
  (router = "apiTaskRouter" /\ Called("list")) =>
    /\ result.ok <=> (LimitGiven => (result.input.limit >= 1 /\ result.input.limit <= 50))
    /\ ~result.ok => IsValidation(result.error)
    /\ result.ok => Len(result.value.items) <= PageLimit
    /\ (result.ok /\ ~LimitGiven /\ ~CursorGiven) =>
         result.value.items = slice(sort(tasks), 10)

C16_Witness ==
  /\ router = "apiTaskRouter"
  /\ Called("list") /\ result.ok
  /\ ~LimitGiven
  /\ Len(tasks) > 10
  /\ Len(result.value.items) = 10

TitleOnly(input) == "titulo" \in DOMAIN input /\ "descricao" \notin DOMAIN input
DescriptionOnly(input) == "descricao" \in DOMAIN input /\ "titulo" \notin DOMAIN input

\* C17: every call is one step on the store, so two update requests in flight
\* together are handled one after the other, in either order.  When an update
\* that gives only a titulo and an update of the same task that gives only a
\* descricao both succeed, one straight after the other, the stored task
\* carries the titulo of the one and the descricao of the other.
C17_NoLostUpdate ==
  [][(/\ Called("update") /\ result.ok
      /\ Calls("update") /\ result'.ok
      /\ result'.input.id = result.input.id
      /\ \/ TitleOnly(result.input) /\ DescriptionOnly(result'.input)
         \/ DescriptionOnly(result.input) /\ TitleOnly(result'.input)) =>
       LET after == Stored(StoreTasks', result'.input.id)
           byTitle == IF TitleOnly(result.input) THEN result.input ELSE result'.input
           byDescription == IF TitleOnly(result.input) THEN result'.input ELSE result.input
       IN /\ after.titulo = byTitle.titulo
          /\ after.descricao = byDescription.descricao]_vars

C17_Witness ==
  /\ router = "taskRouter"
  /\ Called("update") /\ result.ok
  /\ DescriptionOnly(result.input)
  /\ result.input.id = randomUUID(1)
  /\ Stored(StoreTasks, randomUUID(1)).titulo = "Buy milk"
  /\ Stored(StoreTasks, randomUUID(1)).descricao = string("")

\* the ids of the tasks of a page
PageIds(page) == {page.tasks[i].id : i \in 1..Len(page.tasks)}

\* C18: while a client walks the pages of infiniteList, passing each page's
\* nextCursor to the next call, with tasks created and deleted in between, no
\* task is on two of the pages fetched, and every task of a page is older
\* than every task of the pages before it.
C18_NoTaskOnTwoPages ==
  \A i, j \in 1..Len(pages) :
    i < j =>
      /\ PageIds(pages[i]) \cap PageIds(pages[j]) = {}
      /\ \A k \in 1..Len(pages[i].tasks), l \in 1..Len(pages[j].tasks) :
           pages[j].tasks[l].dataCriacao < pages[i].tasks[k].dataCriacao

C18_Witness ==
  /\ Len(pages) = 2
  /\ Len(pages[2].tasks) = 3
  /\ MapHas(tasksStore, randomUUID(Len(seedTasks) + 1))
  /\ randomUUID(Len(seedTasks) + 1) \notin PageIds(pages[1])
  /\ ~MapHas(tasksStore, randomUUID(1))
  /\ randomUUID(1) \in PageIds(pages[1])

\* C19: infiniteList returns at most 9 tasks without a cursor and at most 3
\* with one; nextCursor is the dataCriacao of the last task returned when the
\* page has that many tasks, and null when it has fewer.
C19_InfiniteListPageSizes ==
  (Called("infiniteList") /\ result.ok) =>
    LET page == result.value.tasks
        full == IF "cursor" \in DOMAIN result.input THEN 3 ELSE 9
    IN /\ Len(page) <= full
       /\ Len(page) = full =>
            result.value.nextCursor = number(page[Len(page)].dataCriacao)
       /\ Len(page) < full => result.value.nextCursor = null

C19_Witness ==
  /\ Called("infiniteList") /\ result.ok
  /\ "cursor" \notin DOMAIN result.input
  /\ Len(tasksStore) > 9
  /\ Len(result.value.tasks) = 9
  /\ result.value.nextCursor = number(result.value.tasks[9].dataCriacao)

\* C20: for one client whose task.list data came from list(), after every
\* create, update and delete the client has handled, the cached list is what
\* list() returns: the same tasks in the same order.
C20_CacheEqualsList ==
  hasData(cache) /\ cache.data = list(tasksStore)

\* the place of the task of an id in a list of tasks
IndexOf(taskList, id) == CHOOSE i \in 1..Len(taskList) : taskList[i].id = id
Ids(taskList) == [i \in 1..Len(taskList) |-> taskList[i].id]

\* C21: in every reachable state, two tasks of list() that have the same
\* dataCriacao stand in the order of their insertion into the store; and a
\* successful update leaves every task of list() in its place.
C21_TiesInInsertionOrder ==
  /\ [](LET l == list(tasksStore)
            v == MapValues(tasksStore)
        IN \A i, j \in 1..Len(l) :
             (i < j /\ l[i].dataCriacao = l[j].dataCriacao) =>
               IndexOf(v, l[i].id) < IndexOf(v, l[j].id))
  /\ [][(Calls("update") /\ result'.ok) =>
          Ids(list(tasksStore')) = Ids(list(tasksStore))]_vars

C21_Witness ==
  /\ Called("update") /\ result.ok
  /\ \E i \in 1..(Len(tasksStore) - 1) :
       /\ tasksStore[i].value.dataCriacao = tasksStore[i + 1].value.dataCriacao
       /\ tasksStore[i + 1].key = result.input.id
       /\ tasksStore[i + 1].value = result.value
       /\ tasksStore[i + 1].value.descricao # tasksStore[i].value.descricao
       /\ Ids(list(tasksStore))[1] = tasksStore[i].key

\* C22: in every reachable state, the seeded one included, dataCriacao does
\* not decrease along the store's insertion order: a task inserted later is
\* never older than a task inserted earlier.
C22_CreatedAtFollowsInsertion ==
  \A i, j \in 1..Len(StoreTasks) :
    i < j => StoreTasks[i].dataCriacao <= StoreTasks[j].dataCriacao

\* the tasks of the pages fetched so far, in the order fetched
RECURSIVE Walked(_)
Walked(ps) == IF ps = <<>> THEN <<>> ELSE Walked(SubSeq(ps, 1, Len(ps) - 1)) \o PageTasks(ps[Len(ps)])

\* the walk is over: the last page has no nextCursor
WalkDone == pages # <<>> /\ pages[Len(pages)].nextCursor = null

\* C23: in a walk of the pages, the pages after a page whose nextCursor is c
\* hold no task whose dataCriacao is c: the tasks of that dataCriacao that the
\* page itself did not hold are on no page of the walk.
C23_TiedTasksSkipped ==
  \A i, j \in 1..Len(pages) :
    (i < j /\ pages[i].nextCursor # null) =>
      \A k \in 1..Len(PageTasks(pages[j])) :
        PageTasks(pages[j])[k].dataCriacao # pages[i].nextCursor.value

C23_Witness ==
  /\ WalkDone
  /\ Len(pages) >= 2
  /\ \E i \in 1..Len(StoreTasks) :
       /\ StoreTasks[i].dataCriacao = pages[1].nextCursor.value
       /\ StoreTasks[i].id \notin Elements(Ids(Walked(pages)))

\* C24: a step of the TaskItem that sends an update request is taken only
\* when the title typed, trimmed, is not empty, when the trimmed title or the
\* trimmed description differs from the task's current one (no description
\* counting as the empty one), and when no update request is pending; and the
\* request carries the trimmed title.
C24_SaveOnlyWithChanges ==
  [][Len(item'.updateTask) > Len(item.updateTask) =>
       /\ trim(item.titulo) # ""
       /\ \/ trim(item.titulo) # taskProp.titulo
          \/ trim(item.descricao) # nullishEmpty(taskProp.descricao)
       /\ item.updateTask = <<>>
       /\ item'.updateTask = <<saveInput>>
       /\ saveInput.titulo = trim(item.titulo)]_vars

C24_Witness ==
  /\ item.isEditing
  /\ trim(item.titulo) = ""
  /\ item.error = "Título é obrigatório"
  /\ item.updateTask = <<>>
  /\ taskProp.titulo = "Buy milk"

\* no two tasks of the store have the same dataCriacao
DistinctTimes ==
  \A i, j \in 1..Len(StoreTasks) :
    StoreTasks[i].dataCriacao = StoreTasks[j].dataCriacao => i = j

\* C25: when no two tasks of the store have the same dataCriacao and the
\* store stays as it is, a walk that starts without a cursor and passes each
\* page's nextCursor to the next request comes to a page whose nextCursor is
\* null, and the pages fetched by then hold every task of the store exactly
\* once, newest first.
C25_WalkReturnsEveryTask ==
  DistinctTimes ~>
    (/\ WalkDone
     /\ LET walked == Walked(pages)
        IN /\ Len(walked) = Len(StoreTasks)
           /\ Elements(walked) = Elements(StoreTasks)
           /\ \A i \in 1..(Len(walked) - 1) :
                walked[i].dataCriacao > walked[i + 1].dataCriacao)

C25_Witness ==
  /\ DistinctTimes
  /\ WalkDone
  /\ Len(pages) >= 3
  /\ Len(PageTasks(pages[Len(pages)])) = 0
  /\ Len(Walked(pages)) = Len(StoreTasks)
  /\ Len(StoreTasks) >= 4

\* the ids given out so far: those of the seeds and those create has drawn
IssuedIds ==
  {randomUUID(n) : n \in 1..uuidCount}
    \cup (IF router = "apiTaskRouter" THEN {apiTasks[i].id : i \in 1..Len(apiTasks)} ELSE {})

\* C26: an id that was a key of the store and is one no more never becomes
\* one again.  Every key of the store is an id given out earlier, and no step,
\* be it a create, an update or a delete, puts back an id given out earlier
\* that the store does not hold: a create stores under an id never given out,
\* and an update of an id the store does not hold stores nothing.
C26_DeletedIdNeverReturns ==
  /\ [](StoreIds \subseteq IssuedIds)
  /\ [][\A id \in IssuedIds \ StoreIds : id \notin StoreIds']_vars

C26_Witness ==
  /\ router = "taskRouter"
  /\ Called("update") /\ ~result.ok
  /\ IsNotFound(result.error)
  /\ result.input.id = randomUUID(1)
  /\ randomUUID(1) \notin StoreIds
  /\ randomUUID(Len(seedTasks) + 1) \in StoreIds

\* C27: in every router, an update call whose titulo is empty or longer than
\* 120 characters, for an id the store does not hold, fails with a validation
\* error, not with NOT_FOUND, and leaves the store as it was.
C27_ValidationBeforeExistence ==
  [][(/\ Calls("update")
      /\ "titulo" \in DOMAIN result'.input
      /\ (Len(result'.input.titulo) = 0 \/ Len(result'.input.titulo) > 120)
      /\ result'.input.id \notin StoreIds) =>
       /\ ~result'.ok
       /\ IsValidation(result'.error)
       /\ tasksStore' = tasksStore /\ tasks' = tasks]_vars

\* a request of the item has settled in this step: result' is its outcome
UpdateSettles == Len(item'.updateTask) < Len(item.updateTask)
DeleteSettles == Len(item'.deleteTask) < Len(item.deleteTask)
SameMode ==
  /\ item'.isEditing = item.isEditing
  /\ item'.isConfirmingDelete = item.isConfirmingDelete

\* C28: in every state of a TaskItem, isEditing and isConfirmingDelete are
\* not both true; when an update request succeeds the item is in view mode
\* afterwards; when an update or a delete request fails the item stays in the
\* mode it was in, which is the editor or the confirmation, and its error is
\* the message of the failure, rendered there.
C28_OneModeAtATime ==
  /\ [](~(item.isEditing /\ item.isConfirmingDelete))
  /\ [][/\ (UpdateSettles /\ result'.ok) =>
             (~item'.isEditing /\ ~item'.isConfirmingDelete)
        /\ ((UpdateSettles \/ DeleteSettles) /\ ~result'.ok) =>
             /\ SameMode
             /\ item'.isEditing \/ item'.isConfirmingDelete
             /\ item'.error = result'.error.message
             /\ item'.error # ""]_vars

C28_Witness ==
  /\ item.isConfirmingDelete /\ ~item.isEditing
  /\ item.deleteTask = <<>>
  /\ Called("delete") /\ ~result.ok
  /\ item.error = "Task not found"
  /\ Mounted
  /\ taskProp.titulo = "Buy milk"

\* C29: a call of list, of the paginated lists or of getById leaves the store
\* as it was; getById does not fail, returns the task stored under the id when
\* there is one, and null when there is none.
C29_ReadsLeaveStore ==
  [][/\ (result'.op \in {"list", "infiniteList", "getById"}
           /\ ~SameResult(result, result')) =>
          (tasksStore' = tasksStore /\ tasks' = tasks)
     /\ Calls("getById") =>
          /\ result'.ok
          /\ result'.input.id \in StoreIds =>
               result'.value = Stored(StoreTasks, result'.input.id)
          /\ result'.input.id \notin StoreIds => result'.value = null]_vars

C29_Witness ==
  /\ Called("getById") /\ result.ok
  /\ result.input.id = randomUUID(1)
  /\ result.value = null
  /\ Len(tasksStore) = Len(seedTasks) - 1
====
